---- MODULE Spec2Model ----
(***************************************************************************)
(* AIOpsAnalyzer: evidence aggregation -> reasoning service -> response    *)
(* parser -> dispatcher.  The controller's Reconcile (and the stand-alone  *)
(* main of the llm prototype) as a state machine, with the parser, the     *)
(* evidence builders and the card constructors as operators.               *)
(*                                                                         *)
(* Text is modelled as a sequence of lines (every piece the code writes    *)
(* ends in a newline).  A JSON text is modelled by its syntax class and,   *)
(* for an object, by the value each struct-tagged key carries after        *)
(* encoding/json has matched the keys to the fields.                       *)
(***************************************************************************)
EXTENDS Integers, Sequences, FiniteSets, TLC

\* ------------------------------------------------------------------ bounds
MaxPatchOps == 1
MaxPods == 1
MaxAlerts == 1
MaxLogs == 1
MaxClock == 1

\* ------------------------------------------------------------- JSON values
\* One JSON value at a key: the key is absent, or holds null, a number, a
\* string (s is its content), or some other non-string value.
Absent == [t |-> "absent", s |-> ""]
JNull == [t |-> "null", s |-> ""]
JNum == [t |-> "num", s |-> ""]
JStr(str) == [t |-> "str", s |-> str]

\* encoding/json storing a JSON value into a Go string field: an absent key and
\* null leave the zero value, a string is copied byte for byte, anything else
\* is an UnmarshalTypeError (and the field keeps its zero value).
StringFieldOK(v) == v.t \in {"absent", "null", "str"}
StringField(v) == IF v.t = "str" THEN v.s ELSE ""

\* The "target" key: absent, null, a non-object (type error) or an object
\* holding "kind" and "labelSelector".
TargetFieldOK(v) ==
    \/ v.t \in {"absent", "null"}
    \/ v.t = "obj" /\ StringFieldOK(v.kind) /\ StringFieldOK(v.labelSelector)
TargetField(v) ==
    IF v.t = "obj"
    THEN [Kind |-> StringField(v.kind), LabelSelector |-> StringField(v.labelSelector)]
    ELSE [Kind |-> "", LabelSelector |-> ""]

\* The "patch_content" key: absent, null, a non-array (type error) or an array
\* of objects holding "op" and "path" ("value" is of type any and never fails).
PatchFieldOK(v) ==
    \/ v.t \in {"absent", "null"}
    \/ /\ v.t = "arr"
       /\ \A i \in 1..Len(v.ops) : StringFieldOK(v.ops[i].op) /\ StringFieldOK(v.ops[i].path)
PatchField(v) ==
    IF v.t = "arr"
    THEN [i \in 1..Len(v.ops) |->
            [Op |-> StringField(v.ops[i].op), Path |-> StringField(v.ops[i].path)]]
    ELSE <<>>

\* -------------------------------------------------------- outcome variants
NilResult == [kind |-> "nil"]

NoopAction(action, reason) ==
    [kind |-> "*NoopAction", Action |-> action, Reason |-> reason]

HealAction(text) ==
    [kind |-> "*HealAction",
     Namespace |-> StringField(text.namespace),
     Action |-> StringField(text.action),
     Reason |-> StringField(text.reason),
     Detail |-> StringField(text.detail),
     PatchFile |-> StringField(text.patch_file),
     PatchContent |-> PatchField(text.patch_content),
     Target |-> TargetField(text.target),
     SuggestedDuration |-> StringField(text.suggested_duration),
     RiskLevel |-> StringField(text.risk_level)]

\* ------------------------------------------------------------------ parser
\* json.Unmarshal into a struct: a syntax error for text that is not JSON, a
\* type error for a JSON scalar or array, nothing at all for the text null,
\* and field by field for an object.
TopLevelOK(text) == text.syntax \in {"null", "object"}

\* json.Unmarshal([]byte(jsonStr), &b) with b of type base{Action, Reason}.
UnmarshalBaseOK(text) ==
    /\ TopLevelOK(text)
    /\ text.syntax = "object" => StringFieldOK(text.action) /\ StringFieldOK(text.reason)

BaseAction(text) == IF text.syntax = "object" THEN StringField(text.action) ELSE ""

\* ParseJSONTo(jsonStr, &heal)
ParseJSONToHealOK(text) ==
    /\ TopLevelOK(text)
    /\ text.syntax = "object" =>
          /\ StringFieldOK(text.namespace)
          /\ StringFieldOK(text.action)
          /\ StringFieldOK(text.reason)
          /\ StringFieldOK(text.detail)
          /\ StringFieldOK(text.patch_file)
          /\ PatchFieldOK(text.patch_content)
          /\ TargetFieldOK(text.target)
          /\ StringFieldOK(text.suggested_duration)
          /\ StringFieldOK(text.risk_level)

\* ParseJSONTo(jsonStr, &noop)
ParseJSONToNoopOK(text) ==
    /\ TopLevelOK(text)
    /\ text.syntax = "object" => StringFieldOK(text.action) /\ StringFieldOK(text.reason)

ValidRiskLevelAcceptEmpty(riskLevel) == riskLevel \in {"low", "medium", "high", ""}
ValidRiskLevel(riskLevel) == riskLevel \in {"low", "medium", "high"}

Returned(result, err) == [result |-> result, err |-> err]

HealBranch(text) ==
    IF ~ParseJSONToHealOK(text)
    THEN Returned(NilResult, "json unmarshal failed")
    ELSE IF ~ValidRiskLevel(HealAction(text).RiskLevel)
         THEN Returned(NilResult, "invalid risk_level")
         ELSE Returned(HealAction(text), "")

NoopBranchStrict(text) ==
    IF ~ParseJSONToHealOK(text) \/ text.extra
    THEN Returned(NilResult, "json unmarshal failed")
    ELSE Returned(NoopAction(StringField(text.action), StringField(text.reason)), "")
NoopBranch(text) ==
    IF ~ParseJSONToNoopOK(text)
    THEN Returned(NilResult, "json unmarshal failed")
    ELSE Returned(NoopAction(StringField(text.action), StringField(text.reason)), "")

DefaultBranchAsNoop(text) == Returned(NoopAction("noop", ""), "")
DefaultBranch(text) == Returned(NilResult, "unknown action")

BaseFailedZeroValue(text) == Returned(NoopAction("", ""), "parse base failed")
BaseFailed(text) == Returned(NilResult, "parse base failed")

ParseAutoHealResponse(text) ==
    IF ~UnmarshalBaseOK(text)
    THEN BaseFailed(text)
    ELSE CASE BaseAction(text) = "heal" -> HealBranch(text)
           [] BaseAction(text) = "noop" -> NoopBranch(text)
           [] OTHER -> DefaultBranch(text)

\* ------------------------------------------------------------ response texts
\* A response text: its syntax class and, for an object, the value at each key
\* the decoders look at; extra says whether it also carries keys no struct has.
Text(syntax, action, reason, namespace, patch_file, patch_content, target, risk_level, extra) ==
    [syntax |-> syntax, action |-> action, reason |-> reason, namespace |-> namespace,
     detail |-> IF syntax = "object" THEN JStr("raise the cpu limit") ELSE Absent,
     patch_file |-> patch_file, patch_content |-> patch_content, target |-> target,
     suggested_duration |-> IF syntax = "object" THEN JStr("30m") ELSE Absent,
     risk_level |-> risk_level, extra |-> extra]

NoTarget == [t |-> "absent", kind |-> Absent, labelSelector |-> Absent]
NonObjectTarget == [t |-> "str", kind |-> Absent, labelSelector |-> Absent]
ObjectTarget(kind, labelSelector) == [t |-> "obj", kind |-> kind, labelSelector |-> labelSelector]

NoPatch == [t |-> "absent", ops |-> <<>>]
NonArrayPatch == [t |-> "str", ops |-> <<>>]
ArrayPatch(ops) == [t |-> "arr", ops |-> ops]

NonObjectText(syntax) ==
    Text(syntax, Absent, Absent, Absent, Absent, NoPatch, NoTarget, Absent, FALSE)

SeqsUpTo(S, n) == UNION {[1..k -> S] : k \in 0..n}

ActionValues == {Absent, JNull, JNum} \cup {JStr(a) : a \in {"heal", "noop", "ignore", "Heal", ""}}
ReasonValues == {Absent, JNum, JStr("CPU usage nominal")}
NamespaceValues == {Absent, JNum, JStr("order-prod"), JStr("default")}
RiskValues ==
    {Absent, JNull, JNum} \cup {JStr(r) : r \in {"low", "medium", "high", "critical", "", "High"}}
PatchOpValues ==
    {[op |-> JStr(o), path |-> JStr("/spec/replicas")] : o \in {"replace", "move"}}
        \cup {[op |-> JNum, path |-> JStr("/spec/replicas")]}
PatchValues == {NoPatch, NonArrayPatch} \cup {ArrayPatch(ops) : ops \in SeqsUpTo(PatchOpValues, MaxPatchOps)}
TargetValues ==
    {NoTarget, NonObjectTarget, ObjectTarget(JStr("Deployment"), JStr("app=web")),
     ObjectTarget(JStr("Deployment"), Absent), ObjectTarget(JStr("Deployment"), JNum)}
PatchFileName == "20251126-204555-cpu-spike.yaml"

\* The texts the parser is checked on.
ParseInputs ==
    {NonObjectText(x) : x \in {"invalid", "null", "scalar", "array"}}
        \cup {Text("object", a, r, n, JStr(PatchFileName), p, t, k, e) :
                a \in ActionValues, r \in ReasonValues, n \in NamespaceValues,
                p \in PatchValues, t \in TargetValues, k \in RiskValues, e \in BOOLEAN}

\* ----------------------------------------------------------------- targets
\* autofixv1.TargetSelector: a namespace and a metav1.LabelSelector.  A nil
\* MatchLabels map and a nil MatchExpressions slice are told apart from empty
\* ones; exprsValid says whether LabelSelectorAsSelector accepts the expressions.
TargetSelector(namespace, labelsNil, labels, exprsNil, exprsValid) ==
    [Namespace |-> namespace,
     MatchLabelsNil |-> labelsNil, MatchLabels |-> labels,
     MatchExpressionsNil |-> exprsNil, ExprsValid |-> exprsValid]

TargetNamespaces == {"", "product-a"}
Targets ==
    {TargetSelector(ns, TRUE, <<>>, TRUE, TRUE) : ns \in TargetNamespaces}
        \cup {TargetSelector(ns, FALSE, <<[k |-> "app", v |-> "web"]>>, TRUE, TRUE) : ns \in TargetNamespaces}
        \cup {TargetSelector(ns, TRUE, <<>>, FALSE, ok) : ns \in TargetNamespaces, ok \in BOOLEAN}

NamespaceDefault == "default"

\* GetTargetPods: the namespace the listing is scoped to.
ListNamespace(target) ==
    IF target.Namespace = "" THEN NamespaceDefault ELSE target.Namespace

\* GetTargetPods: LabelSelectorAsSelector fails on an invalid expression.
SelectorConversionFails(target) ==
    /\ ~(target.MatchLabelsNil /\ target.MatchExpressionsNil)
    /\ ~target.ExprsValid

\* -------------------------------------------------------------------- pods
Pod(name, conditions, containerStatuses) ==
    [Name |-> name, Namespace |-> "product-a", Labels |-> "app=web",
     ResourceVersion |-> "4711", UID |-> "uid-1", Generation |-> 2,
     Finalizers |-> <<"foregroundDeletion">>, OwnerReferences |-> <<"ReplicaSet/web">>,
     ManagedFields |-> <<"kubelet">>, CreationTimestamp |-> "2025-11-26T20:45:55Z",
     Phase |-> "Running", Conditions |-> conditions, ContainerStatuses |-> containerStatuses]

Condition(type, status) == [Type |-> type, Status |-> status]
ContainerStatus(name, ready) == [Name |-> name, Ready |-> ready, State |-> "running"]

ClusterPods ==
    {Pod("web-0", <<Condition("Ready", "False"), Condition("PodScheduled", "True")>>,
         <<ContainerStatus("app", FALSE), ContainerStatus("sidecar", TRUE)>>),
     Pod("web-1", <<>>, <<ContainerStatus("app", TRUE)>>),
     Pod("web-2", <<Condition("Ready", "True")>>, <<>>)}

PodLists == SeqsUpTo(ClusterPods, MaxPods)

\* FilterPodFields indexes Conditions[len-1] and ContainerStatuses[0]: on an
\* empty slice the index expression panics.
FilterPodFieldsPanics(pod) == Len(pod.Conditions) = 0 \/ Len(pod.ContainerStatuses) = 0

FilterPodFieldsKeepsOwner(pod) ==
    [Name |-> pod.Name, Namespace |-> pod.Namespace, Labels |-> pod.Labels,
     ResourceVersion |-> "", UID |-> "", Generation |-> 0,
     Finalizers |-> <<>>, OwnerReferences |-> pod.OwnerReferences, ManagedFields |-> <<>>,
     CreationTimestamp |-> "",
     Phase |-> pod.Phase,
     Conditions |-> <<Condition("Ready", pod.Conditions[Len(pod.Conditions)].Status)>>,
     ContainerStatuses |->
        <<[Name |-> pod.ContainerStatuses[1].Name,
           Ready |-> pod.ContainerStatuses[1].Ready,
           State |-> pod.ContainerStatuses[1].State]>>]
FilterPodFields(pod) ==
    [Name |-> pod.Name, Namespace |-> pod.Namespace, Labels |-> pod.Labels,
     ResourceVersion |-> "", UID |-> "", Generation |-> 0,
     Finalizers |-> <<>>, OwnerReferences |-> <<>>, ManagedFields |-> <<>>,
     CreationTimestamp |-> "",
     Phase |-> pod.Phase,
     Conditions |-> <<Condition("Ready", pod.Conditions[Len(pod.Conditions)].Status)>>,
     ContainerStatuses |->
        <<[Name |-> pod.ContainerStatuses[1].Name,
           Ready |-> pod.ContainerStatuses[1].Ready,
           State |-> pod.ContainerStatuses[1].State]>>]

RECURSIVE Flatten(_)
Flatten(blocks) ==
    IF blocks = <<>> THEN <<>> ELSE Head(blocks) \o Flatten(Tail(blocks))

BoolText(b) == IF b THEN "true" ELSE "false"

\* serializer.Encode of one filtered pod (omitempty fields left out when empty),
\* followed by the record delimiter the caller writes.
EncodePod(pod) ==
    <<"metadata:", "  labels: " \o pod.Labels, "  name: " \o pod.Name,
      "  namespace: " \o pod.Namespace>>
    \o (IF pod.ResourceVersion = "" THEN <<>> ELSE <<"  resourceVersion: " \o pod.ResourceVersion>>)
    \o (IF pod.UID = "" THEN <<>> ELSE <<"  uid: " \o pod.UID>>)
    \o <<"status:", "  phase: " \o pod.Phase>>
    \o Flatten([i \in 1..Len(pod.Conditions) |->
          <<"  condition: " \o pod.Conditions[i].Type \o "=" \o pod.Conditions[i].Status>>])
    \o Flatten([i \in 1..Len(pod.ContainerStatuses) |->
          <<"  container: " \o pod.ContainerStatuses[i].Name \o " ready="
              \o BoolText(pod.ContainerStatuses[i].Ready)>>])
    \o <<"---">>

\* GetTargetResourceYAML after a successful listing: "" and no error for no
\* pods; otherwise each pod is filtered (which may panic), encoded and followed
\* by "---".
Yielded(text, err) == [text |-> text, err |-> err]
IndexPanic == "panic: index out of range"

ResourceYAMLNoPodsIsError(listed) ==
    IF Len(listed) = 0 THEN Yielded(<<>>, "no pods found")
    ELSE IF \E i \in 1..Len(listed) : FilterPodFieldsPanics(listed[i])
         THEN Yielded(<<>>, IndexPanic)
         ELSE Yielded(Flatten([i \in 1..Len(listed) |-> EncodePod(FilterPodFields(listed[i]))]), "")
ResourceYAML(listed) ==
    IF Len(listed) = 0 THEN Yielded(<<>>, "")
    ELSE IF \E i \in 1..Len(listed) : FilterPodFieldsPanics(listed[i])
         THEN Yielded(<<>>, IndexPanic)
         ELSE Yielded(Flatten([i \in 1..Len(listed) |-> EncodePod(FilterPodFields(listed[i]))]), "")

\* The slice GetTargetResourceYAML fills with FilterPodFields' results; a panic
\* unwinds the function and the slice is lost.
FilteredPods(listed) ==
    IF \E i \in 1..Len(listed) : FilterPodFieldsPanics(listed[i])
    THEN <<>>
    ELSE [i \in 1..Len(listed) |-> FilterPodFields(listed[i])]

\* ------------------------------------------------------------ alert source
\* The query GetPrometheusAlerts builds, a piece at a time as the code does.
RECURSIVE LabelMatchers(_, _)
LabelMatchers(labels, quote) ==
    IF labels = <<>> THEN ""
    ELSE "," \o Head(labels).k \o "=" \o quote \o Head(labels).v \o quote
             \o LabelMatchers(Tail(labels), quote)

PrometheusQuery(target) ==
    "ALERTS{namespace='" \o target.Namespace \o "'}"
        \o (IF target.MatchLabelsNil THEN "" ELSE LabelMatchers(target.MatchLabels, "'"))
        \o " and ALERTS.state='firing'"

\* What http.Get and the JSON decode of the body can give: a transport error,
\* a body that is not a JSON object, or an object; status is the HTTP status,
\* which the code never reads.
AlertRecord(pod) == [alertname |-> "CPUUsageHigh", namespace |-> "product-a", pod |-> pod]
AlertRecords == {AlertRecord(JStr("web-0")), AlertRecord(Absent)}
NoAlertReply == [kind |-> "none", status |-> "", hasData |-> FALSE, resultType |-> "", result |-> <<>>]
AlertReplies ==
    {[kind |-> k, status |-> "", hasData |-> FALSE, resultType |-> "", result |-> <<>>] :
        k \in {"transport error", "not json"}}
      \cup {[kind |-> "json", status |-> "500", hasData |-> FALSE, resultType |-> "", result |-> <<>>],
            [kind |-> "json", status |-> "200", hasData |-> TRUE, resultType |-> "matrix", result |-> <<>>]}
      \cup {[kind |-> "json", status |-> "200", hasData |-> TRUE, resultType |-> "vector", result |-> r] :
              r \in SeqsUpTo(AlertRecords, MaxAlerts)}

PrometheusFails(reply) == reply.kind \in {"transport error", "not json"}

FormatAlert(alert) ==
    <<"Alert: " \o alert.alertname, "  Namespace: " \o alert.namespace>>
        \o (IF alert.pod.t = "str" THEN <<"  Pod: " \o alert.pod.s>> ELSE <<>>)
        \o <<"">>

\* The text GetPrometheusAlerts returns when it returns no error.
PrometheusAlerts(reply) ==
    IF reply.hasData /\ reply.resultType = "vector"
    THEN Flatten([i \in 1..Len(reply.result) |-> FormatAlert(reply.result[i])])
    ELSE <<>>

\* -------------------------------------------------------------- log source
LokiQuery(target) ==
    "{namespace=\"" \o target.Namespace \o "\""
        \o (IF target.MatchLabelsNil THEN "" ELSE LabelMatchers(target.MatchLabels, "\""))
        \o "} |~ \"(?i)(error|panic|fatal|critical)\""

LogEntries == {[ts |-> "1764161155000000000", line |-> "panic: assignment to entry in nil map"]}
NoLogReply == [kind |-> "none", hasData |-> FALSE, resultType |-> "", values |-> <<>>]
LogReplies ==
    {[kind |-> k, hasData |-> FALSE, resultType |-> "", values |-> <<>>] :
        k \in {"transport error", "status not 200", "not json"}}
      \cup {[kind |-> "json", hasData |-> FALSE, resultType |-> "", values |-> <<>>]}
      \cup {[kind |-> "json", hasData |-> TRUE, resultType |-> "streams", values |-> v] :
              v \in SeqsUpTo(LogEntries, MaxLogs)}

LokiFails(reply) == reply.kind \in {"transport error", "status not 200", "not json"}

\* The text GetLokiLogs returns when it returns no error.
LokiLogs(reply) ==
    IF reply.hasData /\ reply.resultType = "streams"
    THEN [i \in 1..Len(reply.values) |-> reply.values[i].ts \o ": " \o reply.values[i].line]
    ELSE <<>>

\* --------------------------------------------------------- evidence report
ResourceHeader == "=== Target Resource Information ==="
AlertsHeader == "=== Prometheus Alerts ==="
LogsHeader == "=== Loki Error Logs ==="
Headers == {ResourceHeader, AlertsHeader, LogsHeader}

\* BuildEventString, step 4: the report assembled from the three blocks.
EventStringHeadersOnData(resourceYAML, prometheusAlerts, lokiLogs) ==
    (IF resourceYAML = <<>> THEN <<>> ELSE <<ResourceHeader>> \o resourceYAML)
        \o (IF prometheusAlerts = <<>> THEN <<>> ELSE <<"", AlertsHeader>> \o prometheusAlerts)
        \o (IF lokiLogs = <<>> THEN <<>> ELSE <<"", LogsHeader>> \o lokiLogs)
EventString(resourceYAML, prometheusAlerts, lokiLogs) ==
    <<ResourceHeader>> \o resourceYAML
        \o <<"", AlertsHeader>>
        \o (IF prometheusAlerts = <<>> THEN <<"No firing alerts">> ELSE prometheusAlerts)
        \o <<"", LogsHeader>>
        \o (IF lokiLogs = <<>> THEN <<"No error logs">> ELSE lokiLogs)

\* -------------------------------------------------------- reasoning service
\* What SendMessage returns: an error (the transport failed, or the reply has
\* no choices) or the content of the first choice.
LLMTexts ==
    {NonObjectText(x) : x \in {"invalid", "null", "array"}}
      \cup {Text("object", JStr("heal"), JStr("CPU throttled at 78%"), n, JStr(PatchFileName),
                 ArrayPatch(ops), t, k, FALSE) :
              n \in {JStr("order-prod"), JStr("default"), Absent},
              ops \in SeqsUpTo({[op |-> JStr(o), path |-> JStr("/spec/replicas")] :
                                   o \in {"replace", "move"}}, MaxPatchOps),
              t \in {ObjectTarget(JStr("Deployment"), JStr("app=web")), NoTarget},
              k \in {JStr("low"), JStr("high"), JStr(""), JStr("critical")}}
      \cup {Text("object", a, JStr("CPU usage nominal"), Absent, Absent, NoPatch, NoTarget, k, e) :
              a \in {JStr("noop"), JStr("ignore"), Absent},
              k \in {Absent, JStr("critical")}, e \in BOOLEAN}

LLMReplies ==
    {[err |-> e, text |-> NonObjectText("invalid")] : e \in {"transport error", "no response from OpenAI"}}
      \cup {[err |-> "", text |-> t] : t \in LLMTexts}

\* ----------------------------------------------------------- notification
NewCardMessage(receiveID, receiveType, templateID, version, vars) ==
    [ReceiveID |-> receiveID, ReceiveType |-> receiveType, TemplateID |-> templateID,
     Version |-> version, Variables |-> vars]

\* Reconcile, step 9: the card variables built from the HealAction v at Unix
\* time now.
HealCardVariables(v, now) ==
    [Reason |-> v.Reason, Patch |-> v.PatchContent, Patches |-> v.PatchContent,
     ResolveFunction |-> v.Detail, Namespace |-> v.Namespace, Name |-> v.Target.LabelSelector,
     RequestID |-> v.PatchFile \o "-" \o ToString(now)]

HealCardMessage(v, now) ==
    NewCardMessage("oc_receiver", "chat_id", "AAqhGHg0Wgux8", "0.0.9", HealCardVariables(v, now))

\* CreateHealActionCardMessage reads Reason and Target by reflection and fills
\* the remaining variables with literals.
CreateHealActionCardMessage(v, receiveID, receiveType, templateID, version) ==
    LET reason == IF "Reason" \in DOMAIN v THEN v.Reason ELSE ""
        targetLabelSelector ==
            IF "Target" \in DOMAIN v /\ "LabelSelector" \in DOMAIN v.Target
            THEN v.Target.LabelSelector ELSE ""
    IN  NewCardMessage(receiveID, receiveType, templateID, version,
            [ResolveFunction |-> reason, Namespace |-> "default",
             Name |-> targetLabelSelector, RequestID |-> "FEISHU-TEST-ABC-123"])

\* SendTemplateCard: nil, or an error when the call fails or the reply is not
\* a success.
DeliveryOutcomes == {"", "send card message failed", "send card failed"}

\* -------------------------------------------------------------------- state
VARIABLES
    entry,             \* which program runs: "Reconcile", "main" or the parser alone
    pc,                \* the external call the run is about to make, or "done"
    target,            \* aiopsAnalyzer.Spec.Target
    calls,             \* the external calls issued so far, in order
    pods,              \* the pods the resource query listed
    filteredPods,      \* the pods FilterPodFields returned to GetTargetResourceYAML
    alertReply,        \* what the alert source answered
    logReply,          \* what the log source answered
    resourceYAML,      \* BuildEventString's three blocks
    prometheusAlerts,
    lokiLogs,
    eventString,       \* the evidence report
    response,          \* the reasoning service's response text
    parsed,            \* what ParseAutoHealResponse returned
    cards,             \* the delivery attempts: the card and SendTemplateCard's error
    logged,            \* the log lines of the decision stage
    ret,               \* what the run returned
    runs,              \* concurrent Reconcile runs: the locals of each
    clock              \* the Unix time time.Now() gives the concurrent runs

vars == <<entry, pc, target, calls, pods, filteredPods, alertReply, logReply, resourceYAML,
          prometheusAlerts, lokiLogs, eventString, response, parsed, cards, logged, ret,
          runs, clock>>

evidence == <<pods, filteredPods, alertReply, logReply, resourceYAML, prometheusAlerts, lokiLogs, eventString>>
decision == <<response, parsed, cards, logged>>
fleet == <<runs, clock>>
single == <<entry, pc, target, calls, evidence, decision, ret>>

Result(err, requeue) == [err |-> err, requeue |-> requeue]
NotReturned == Result("", FALSE)
NotParsed == Returned(NilResult, "")
NoResponse == NonObjectText("none")
NoTargetSelector == TargetSelector("", TRUE, <<>>, TRUE, TRUE)
Call(op, arg) == [op |-> op, arg |-> arg]
Log(msg, arg) == [msg |-> msg, arg |-> arg]

\* The requests the controller is working on at the same time (one Reconcile
\* call each), and the target of each: two analyzers with different
\* namespaces.
Runs == {"analyzer-a", "analyzer-b"}
RunTarget ==
    [r \in Runs |->
        IF r = "analyzer-a"
        THEN TargetSelector("product-a", FALSE, <<[k |-> "app", v |-> "web"]>>, TRUE, TRUE)
        ELSE TargetSelector("", FALSE, <<[k |-> "app", v |-> "web"]>>, TRUE, TRUE)]

\* The locals of a Reconcile call that has just been entered.
RunInit ==
    [pc |-> "Get", calls |-> <<>>, pods |-> [listed |-> FALSE, items |-> <<>>],
     alertReply |-> NoAlertReply, logReply |-> NoLogReply, eventString |-> <<>>,
     response |-> NoResponse, parsed |-> NotParsed, cards |-> <<>>, ret |-> NotReturned]

InitCommon ==
    /\ calls = <<>>
    /\ pods = [listed |-> FALSE, items |-> <<>>]
    /\ filteredPods = <<>>
    /\ alertReply = NoAlertReply
    /\ logReply = NoLogReply
    /\ resourceYAML = <<>>
    /\ prometheusAlerts = <<>>
    /\ lokiLogs = <<>>
    /\ eventString = <<>>
    /\ parsed = NotParsed
    /\ cards = <<>>
    /\ logged = <<>>
    /\ ret = NotReturned

Init ==
    /\ InitCommon
    /\ runs = [r \in Runs |-> RunInit] /\ clock = 0
    /\ \/ entry = "Reconcile" /\ pc = "Get" /\ target \in Targets /\ response = NoResponse
       \/ entry = "main" /\ pc = "SendMessage" /\ target = NoTargetSelector
            /\ response = NoResponse
       \/ entry = "ParseAutoHealResponse" /\ pc = "Parse" /\ target = NoTargetSelector
            /\ response \in ParseInputs

\* The entry is a run: Reconcile or the stand-alone program.
IsRun == entry \in {"Reconcile", "main"}

\* Return from the run.
Return(err, requeue) ==
    /\ pc' = "done"
    /\ ret' = Result(err, requeue)

\* ---------------------------------------------------------------- Reconcile
\* 1. r.Get, and 2. the check that a selector is configured.
ReconcileGetIgnoresSelector ==
    /\ entry = "Reconcile" /\ pc = "Get"
    /\ calls' = Append(calls, Call("get", ""))
    /\ \/ Return("get failed", FALSE)
       \/ pc' = "GetTargetPods" /\ UNCHANGED ret
    /\ UNCHANGED <<fleet, entry, target, evidence, decision>>
ReconcileGet ==
    /\ entry = "Reconcile" /\ pc = "Get"
    /\ calls' = Append(calls, Call("get", ""))
    /\ \/ Return("get failed", FALSE)
       \/ target.MatchLabelsNil /\ target.MatchExpressionsNil /\ Return("", FALSE)
       \/ ~(target.MatchLabelsNil /\ target.MatchExpressionsNil)
            /\ pc' = "GetTargetPods" /\ UNCHANGED ret
    /\ UNCHANGED <<fleet, entry, target, evidence, decision>>

\* 3. GetTargetPods: the listing whose count is logged.
ReconcileGetTargetPods ==
    /\ entry = "Reconcile" /\ pc = "GetTargetPods"
    /\ \/ SelectorConversionFails(target) /\ Return("selector conversion failed", FALSE)
            /\ UNCHANGED calls
       \/ ~SelectorConversionFails(target)
            /\ calls' = Append(calls, Call("list", ListNamespace(target)))
            /\ \/ Return("list failed", FALSE)
               \/ pc' = "GetTargetResourceYAML" /\ UNCHANGED ret
    /\ UNCHANGED <<fleet, entry, target, evidence, decision>>

\* 4. BuildEventString, 1: GetTargetResourceYAML lists the pods again, filters
\* each and encodes it.  An error returns to Reconcile, which asks for a requeue;
\* a panic unwinds Reconcile and reaches the caller as the run's error.
ReconcileGetTargetResourceYAML ==
    /\ entry = "Reconcile" /\ pc = "GetTargetResourceYAML"
    /\ calls' = Append(calls, Call("list", ListNamespace(target)))
    /\ \/ Return("list failed", TRUE) /\ UNCHANGED <<pods, filteredPods, resourceYAML>>
       \/ \E listed \in PodLists :
            /\ pods' = [listed |-> TRUE, items |-> listed]
            /\ filteredPods' = FilteredPods(listed)
            /\ resourceYAML' = ResourceYAML(listed).text
            /\ IF ResourceYAML(listed).err # ""
               THEN Return(ResourceYAML(listed).err, ResourceYAML(listed).err # IndexPanic)
               ELSE pc' = "GetPrometheusAlerts" /\ UNCHANGED ret
    /\ UNCHANGED <<fleet, entry, target, alertReply, logReply, prometheusAlerts, lokiLogs,
                   eventString, decision>>

\* BuildEventString, 2: GetPrometheusAlerts.
ReconcileGetPrometheusAlertsBestEffort ==
    /\ entry = "Reconcile" /\ pc = "GetPrometheusAlerts"
    /\ calls' = Append(calls, Call("prometheus", PrometheusQuery(target)))
    /\ \E reply \in AlertReplies :
         /\ alertReply' = reply
         /\ prometheusAlerts' = PrometheusAlerts(reply)
         /\ pc' = "GetLokiLogs"
         /\ UNCHANGED ret
    /\ UNCHANGED <<fleet, entry, target, pods, filteredPods, logReply, resourceYAML, lokiLogs,
                   eventString, decision>>
ReconcileGetPrometheusAlertsThenSend ==
    /\ entry = "Reconcile" /\ pc = "GetPrometheusAlerts"
    /\ calls' = Append(calls, Call("prometheus", PrometheusQuery(target)))
    /\ \E reply \in AlertReplies :
         /\ alertReply' = reply
         /\ IF PrometheusFails(reply)
            THEN Return(reply.kind, TRUE) /\ UNCHANGED <<prometheusAlerts, eventString>>
            ELSE /\ prometheusAlerts' = PrometheusAlerts(reply)
                 /\ eventString' = EventString(resourceYAML, PrometheusAlerts(reply), <<>>)
                 /\ pc' = "SendMessage"
                 /\ UNCHANGED ret
    /\ UNCHANGED <<fleet, entry, target, pods, filteredPods, logReply, resourceYAML, lokiLogs, decision>>
ReconcileGetPrometheusAlerts ==
    /\ entry = "Reconcile" /\ pc = "GetPrometheusAlerts"
    /\ calls' = Append(calls, Call("prometheus", PrometheusQuery(target)))
    /\ \E reply \in AlertReplies :
         /\ alertReply' = reply
         /\ IF PrometheusFails(reply)
            THEN Return(reply.kind, TRUE) /\ UNCHANGED prometheusAlerts
            ELSE /\ prometheusAlerts' = PrometheusAlerts(reply)
                 /\ pc' = "GetLokiLogs"
                 /\ UNCHANGED ret
    /\ UNCHANGED <<fleet, entry, target, pods, filteredPods, logReply, resourceYAML, lokiLogs,
                   eventString, decision>>

\* BuildEventString, 3 and 4: GetLokiLogs, then the report is assembled.
ReconcileGetLokiLogs ==
    /\ entry = "Reconcile" /\ pc = "GetLokiLogs"
    /\ calls' = Append(calls, Call("loki", LokiQuery(target)))
    /\ \E reply \in LogReplies :
         /\ logReply' = reply
         /\ IF LokiFails(reply)
            THEN Return(reply.kind, TRUE) /\ UNCHANGED <<lokiLogs, eventString>>
            ELSE /\ lokiLogs' = LokiLogs(reply)
                 /\ eventString' = EventString(resourceYAML, prometheusAlerts, LokiLogs(reply))
                 /\ pc' = "SendMessage"
                 /\ UNCHANGED ret
    /\ UNCHANGED <<fleet, entry, target, pods, filteredPods, alertReply, resourceYAML, prometheusAlerts,
                   decision>>

\* 6. llmClient.SendMessage(content).
ReconcileSendMessageFailureIsNoop ==
    /\ entry = "Reconcile" /\ pc = "SendMessage"
    /\ calls' = Append(calls, Call("llm", ""))
    /\ \E reply \in LLMReplies :
         IF reply.err # ""
         THEN /\ logged' = Append(logged, Log("noop", reply.err))
              /\ Return("", FALSE) /\ UNCHANGED response
         ELSE response' = reply.text /\ pc' = "Parse" /\ UNCHANGED <<ret, logged>>
    /\ UNCHANGED <<fleet, entry, target, evidence, parsed, cards>>
ReconcileSendMessage ==
    /\ entry = "Reconcile" /\ pc = "SendMessage"
    /\ calls' = Append(calls, Call("llm", ""))
    /\ \E reply \in LLMReplies :
         IF reply.err # ""
         THEN Return(reply.err, FALSE) /\ UNCHANGED response
         ELSE response' = reply.text /\ pc' = "Parse" /\ UNCHANGED ret
    /\ UNCHANGED <<fleet, entry, target, evidence, parsed, cards, logged>>

\* 7. ParseAutoHealResponse, and 8. the switch on the outcome's type up to the
\* delivery call.
ReconcileParseBestEffort ==
    /\ entry = "Reconcile" /\ pc = "Parse"
    /\ LET r == ParseAutoHealResponse(response) IN
         IF r.err = "" /\ r.result.kind = "*NoopAction"
         THEN /\ parsed' = r
              /\ logged' = Append(logged, Log("noop", r.result.Reason))
              /\ Return("", FALSE)
         ELSE /\ parsed' = Returned(HealAction(response), r.err)
              /\ logged' = Append(logged, Log("heal action", HealAction(response).Reason))
              /\ pc' = "SendTemplateCard"
              /\ UNCHANGED ret
    /\ UNCHANGED <<fleet, entry, target, calls, evidence, response, cards>>
ReconcileParseNotifyNoop ==
    /\ entry = "Reconcile" /\ pc = "Parse"
    /\ parsed' = ParseAutoHealResponse(response)
    /\ LET r == ParseAutoHealResponse(response) IN
         CASE r.err # "" ->
                Return(r.err, FALSE) /\ UNCHANGED <<logged, calls, cards>>
           [] r.err = "" /\ r.result.kind = "*HealAction" ->
                /\ logged' = Append(logged, Log("heal action", r.result.Reason))
                /\ pc' = "SendTemplateCard"
                /\ UNCHANGED <<ret, calls, cards>>
           [] r.err = "" /\ r.result.kind = "*NoopAction" ->
                /\ logged' = Append(logged, Log("noop", r.result.Reason))
                /\ calls' = Append(calls, Call("feishu", ""))
                /\ cards' = Append(cards,
                      [msg |-> NewCardMessage("oc_receiver", "chat_id", "AAqhGHg0Wgux8", "0.0.9",
                                              [Reason |-> r.result.Reason]),
                       err |-> ""])
                /\ Return("", FALSE)
           [] OTHER -> Return("", FALSE) /\ UNCHANGED <<logged, calls, cards>>
    /\ UNCHANGED <<fleet, entry, target, evidence, response>>
ReconcileParseDropsHeal ==
    /\ entry = "Reconcile" /\ pc = "Parse"
    /\ parsed' = ParseAutoHealResponse(response)
    /\ LET r == ParseAutoHealResponse(response) IN
         CASE r.err # "" ->
                Return(r.err, FALSE) /\ UNCHANGED logged
           [] r.err = "" /\ r.result.kind = "*HealAction" ->
                /\ logged' = Append(logged, Log("heal action", r.result.Reason))
                /\ Return("", FALSE)
           [] r.err = "" /\ r.result.kind = "*NoopAction" ->
                /\ logged' = Append(logged, Log("noop", r.result.Reason))
                /\ Return("", FALSE)
           [] OTHER -> Return("", FALSE) /\ UNCHANGED logged
    /\ UNCHANGED <<fleet, entry, target, calls, evidence, response, cards>>
ReconcileParse ==
    /\ entry = "Reconcile" /\ pc = "Parse"
    /\ parsed' = ParseAutoHealResponse(response)
    /\ LET r == ParseAutoHealResponse(response) IN
         CASE r.err # "" ->
                Return(r.err, FALSE) /\ UNCHANGED logged
           [] r.err = "" /\ r.result.kind = "*HealAction" ->
                /\ logged' = Append(logged, Log("heal action", r.result.Reason))
                /\ pc' = "SendTemplateCard"
                /\ UNCHANGED ret
           [] r.err = "" /\ r.result.kind = "*NoopAction" ->
                /\ logged' = Append(logged, Log("noop", r.result.Reason))
                /\ Return("", FALSE)
           [] OTHER -> Return("", FALSE) /\ UNCHANGED logged
    /\ UNCHANGED <<fleet, entry, target, calls, evidence, response, cards>>

\* 9. The card is built and SendTemplateCard is called once; its error is logged.
ReconcileSendTemplateCardReturnsError ==
    /\ entry = "Reconcile" /\ pc = "SendTemplateCard"
    /\ calls' = Append(calls, Call("feishu", ""))
    /\ \E now \in 0..MaxClock, err \in DeliveryOutcomes :
         /\ cards' = Append(cards, [msg |-> HealCardMessage(parsed.result, now), err |-> err])
         /\ logged' = Append(logged, IF err = "" THEN Log("card sent", "")
                                                 ELSE Log("card failed", err))
         /\ Return(err, err # "")
    /\ UNCHANGED <<fleet, entry, target, evidence, response, parsed>>
ReconcileSendTemplateCard ==
    /\ entry = "Reconcile" /\ pc = "SendTemplateCard"
    /\ calls' = Append(calls, Call("feishu", ""))
    /\ \E now \in 0..MaxClock, err \in DeliveryOutcomes :
         /\ cards' = Append(cards, [msg |-> HealCardMessage(parsed.result, now), err |-> err])
         /\ logged' = Append(logged, IF err = "" THEN Log("card sent", "")
                                                 ELSE Log("card failed", err))
    /\ Return("", FALSE)
    /\ UNCHANGED <<fleet, entry, target, evidence, response, parsed>>

\* ------------------------------------------------- a call that gets no reply
\* The steps of a run that call a collaborator, and the call each makes.
StepCall ==
    [s \in {"GetTargetPods", "GetTargetResourceYAML", "GetPrometheusAlerts", "GetLokiLogs",
            "SendMessage", "SendTemplateCard"} |->
        CASE s \in {"GetTargetPods", "GetTargetResourceYAML"} -> "list"
          [] s = "GetPrometheusAlerts" -> "prometheus"
          [] s = "GetLokiLogs" -> "loki"
          [] s = "SendMessage" -> "llm"
          [] OTHER -> "feishu"]

CallArg(op) ==
    CASE op = "list" -> ListNamespace(target)
      [] op = "prometheus" -> PrometheusQuery(target)
      [] op = "loki" -> LokiQuery(target)
      [] OTHER -> ""

\* The calls made with a client that has a timeout: GetLokiLogs builds an
\* http.Client{Timeout: 15s}; http.Get, the chat client, r.List and the card
\* client are used with no timeout.
HasTimeout(op) == op = "loki"

\* The calls that are handed the caller's context: r.List, the log request and
\* SendTemplateCard in Reconcile.  http.Get takes none, SendMessage uses the
\* context.Background() kept in the client, and main's context is
\* context.Background().
HonoursContext(e, op) == e = "Reconcile" /\ op \in {"list", "loki", "feishu"}

Blocked(step) == step \o ": no reply"
BlockedPCs == {Blocked(step) : step \in DOMAIN StepCall}
BlockedStep == CHOOSE step \in DOMAIN StepCall : pc = Blocked(step)

\* The collaborator accepts the call and never answers: the run waits in it.
CallBlocks ==
    /\ IsRun /\ pc \in DOMAIN StepCall
    /\ pc = "GetTargetPods" => ~SelectorConversionFails(target)
    /\ calls' = Append(calls, Call(StepCall[pc], CallArg(StepCall[pc])))
    /\ pc' = Blocked(pc)
    /\ UNCHANGED <<fleet, entry, target, evidence, decision, ret>>

\* The blocked call returns an error, which the run handles as any error of
\* that call.
BlockedCallFails ==
    /\ CASE BlockedStep = "GetTargetPods" ->
               Return("list failed", FALSE) /\ UNCHANGED <<logReply, cards, logged>>
         [] BlockedStep = "GetTargetResourceYAML" ->
               Return("list failed", TRUE) /\ UNCHANGED <<logReply, cards, logged>>
         [] BlockedStep = "GetLokiLogs" ->
               /\ logReply' = [kind |-> "transport error", hasData |-> FALSE,
                               resultType |-> "", values |-> <<>>]
               /\ Return("transport error", TRUE) /\ UNCHANGED <<cards, logged>>
         [] BlockedStep = "SendTemplateCard" ->
               /\ \E now \in 0..MaxClock :
                    cards' = Append(cards, [msg |-> HealCardMessage(parsed.result, now),
                                            err |-> "send card message failed"])
               /\ logged' = Append(logged, Log("card failed", "send card message failed"))
               /\ Return("", FALSE) /\ UNCHANGED logReply
         [] OTHER ->
               Return("transport error", BlockedStep = "GetPrometheusAlerts")
                 /\ UNCHANGED <<logReply, cards, logged>>
    /\ UNCHANGED <<fleet, entry, target, calls, pods, filteredPods, alertReply, resourceYAML,
                   prometheusAlerts, lokiLogs, eventString, response, parsed>>

\* The client's timeout expires.
CallTimesOut ==
    /\ IsRun /\ pc \in BlockedPCs
    /\ HasTimeout(StepCall[BlockedStep])
    /\ BlockedCallFails

\* The caller cancels the context the call was handed.
ContextCancelled ==
    /\ IsRun /\ pc \in BlockedPCs
    /\ HonoursContext(entry, StepCall[BlockedStep])
    /\ BlockedCallFails

\* --------------------------------------------------------------------- main
\* The stand-alone program: one request, then the same parse and switch, with
\* log.Fatal in place of a returned error.
MainSendMessage ==
    /\ entry = "main" /\ pc = "SendMessage"
    /\ calls' = Append(calls, Call("llm", ""))
    /\ \E reply \in LLMReplies :
         IF reply.err # ""
         THEN Return(reply.err, FALSE) /\ UNCHANGED response
         ELSE response' = reply.text /\ pc' = "Parse" /\ UNCHANGED ret
    /\ UNCHANGED <<fleet, entry, target, evidence, parsed, cards, logged>>

MainParse ==
    /\ entry = "main" /\ pc = "Parse"
    /\ parsed' = ParseAutoHealResponse(response)
    /\ LET r == ParseAutoHealResponse(response) IN
         CASE r.err # "" ->
                Return(r.err, FALSE) /\ UNCHANGED logged
           [] r.err = "" /\ r.result.kind = "*HealAction" ->
                /\ logged' = Append(logged, Log("heal action", r.result.Reason))
                /\ pc' = "SendTemplateCard"
                /\ UNCHANGED ret
           [] r.err = "" /\ r.result.kind = "*NoopAction" ->
                /\ logged' = Append(logged, Log("noop", r.result.Reason))
                /\ Return("", FALSE)
           [] OTHER -> Return("", FALSE) /\ UNCHANGED logged
    /\ UNCHANGED <<fleet, entry, target, calls, evidence, response, cards>>

MainSendTemplateCard ==
    /\ entry = "main" /\ pc = "SendTemplateCard"
    /\ calls' = Append(calls, Call("feishu", ""))
    /\ \E err \in DeliveryOutcomes :
         /\ cards' = Append(cards,
                [msg |-> CreateHealActionCardMessage(parsed.result,
                            "oc_fb3b64606e33897e741fc355529e5784", "chat_id",
                            "AAqhGHg0Wgux8", "0.0.6"),
                 err |-> err])
         /\ logged' = Append(logged, IF err = "" THEN Log("card sent", "")
                                                 ELSE Log("card failed", err))
    /\ Return("", FALSE)
    /\ UNCHANGED <<fleet, entry, target, evidence, response, parsed>>

\* --------------------------------------------------------- the parser alone
\* ParseAutoHealResponse applied to one text of ParseInputs.
ParseOnly ==
    /\ entry = "ParseAutoHealResponse" /\ pc = "Parse"
    /\ parsed' = ParseAutoHealResponse(response)
    /\ pc' = "done"
    /\ UNCHANGED <<fleet, entry, target, calls, evidence, response, cards, logged, ret>>

Next ==
    \/ ReconcileGet
    \/ ReconcileGetTargetPods
    \/ ReconcileGetTargetResourceYAML
    \/ ReconcileGetPrometheusAlerts
    \/ ReconcileGetLokiLogs
    \/ ReconcileSendMessage
    \/ ReconcileParse
    \/ ReconcileSendTemplateCard
    \/ MainSendMessage
    \/ MainParse
    \/ MainSendTemplateCard
    \/ ParseOnly
    \/ CallBlocks
    \/ CallTimesOut
    \/ ContextCancelled

Spec == Init /\ [][Next]_vars

\* ---------------------------------------------------------- concurrent runs
\* Reconcile calls running at the same time, one per request, on one
\* AIOpsAnalyzerReconciler.  The struct holds the API client and the scheme and
\* Reconcile writes to neither: everything a run works on is a local of its
\* call, kept in runs[r].  The collaborators of these runs answer: pods that
\* pass the filter, alert vectors, log streams, a heal or a noop decision.
RunPodLists == {<<>>} \cup {<<p>> : p \in {q \in ClusterPods : ~FilterPodFieldsPanics(q)}}
RunAlertReplies ==
    {a \in AlertReplies : /\ a.resultType = "vector" /\ Len(a.result) <= 1
                          /\ \A i \in 1..Len(a.result) : a.result[i].pod # Absent}
RunLogReplies == {l \in LogReplies : l.resultType = "streams" /\ Len(l.values) <= 1}
RunLLMTexts ==
    {t \in LLMTexts :
        /\ t.syntax = "object" /\ ~t.extra
        /\ \/ /\ t.action = JStr("heal") /\ t.risk_level = JStr("low")
              /\ t.namespace # Absent /\ t.target # NoTarget
              /\ Len(t.patch_content.ops) = 0
           \/ t.action = JStr("noop") /\ t.risk_level = Absent}

RunStep(r, next) ==
    /\ runs' = [runs EXCEPT ![r] = next]
    /\ UNCHANGED <<clock, single>>

RunCalls(r, op, arg) == Append(runs[r].calls, Call(op, arg))

RunGet(r) ==
    /\ entry = "Reconcilers" /\ runs[r].pc = "Get"
    /\ RunStep(r, [runs[r] EXCEPT !.pc = "GetTargetPods", !.calls = RunCalls(r, "get", "")])

RunGetTargetPods(r) ==
    /\ entry = "Reconcilers" /\ runs[r].pc = "GetTargetPods"
    /\ RunStep(r, [runs[r] EXCEPT !.pc = "GetTargetResourceYAML",
                       !.calls = RunCalls(r, "list", ListNamespace(RunTarget[r]))])

RunGetTargetResourceYAML(r) ==
    /\ entry = "Reconcilers" /\ runs[r].pc = "GetTargetResourceYAML"
    /\ \E listed \in RunPodLists :
         RunStep(r, [runs[r] EXCEPT !.pc = "GetPrometheusAlerts",
                        !.calls = RunCalls(r, "list", ListNamespace(RunTarget[r])),
                        !.pods = [listed |-> TRUE, items |-> listed]])

RunGetPrometheusAlerts(r) ==
    /\ entry = "Reconcilers" /\ runs[r].pc = "GetPrometheusAlerts"
    /\ \E reply \in RunAlertReplies :
         RunStep(r, [runs[r] EXCEPT !.pc = "GetLokiLogs",
                        !.calls = RunCalls(r, "prometheus", PrometheusQuery(RunTarget[r])),
                        !.alertReply = reply])

RunGetLokiLogs(r) ==
    /\ entry = "Reconcilers" /\ runs[r].pc = "GetLokiLogs"
    /\ \E reply \in RunLogReplies :
         RunStep(r, [runs[r] EXCEPT !.pc = "SendMessage",
                        !.calls = RunCalls(r, "loki", LokiQuery(RunTarget[r])),
                        !.logReply = reply,
                        !.eventString = EventString(ResourceYAML(runs[r].pods.items).text,
                                                    PrometheusAlerts(runs[r].alertReply),
                                                    LokiLogs(reply))])

RunSendMessage(r) ==
    /\ entry = "Reconcilers" /\ runs[r].pc = "SendMessage"
    /\ \E text \in RunLLMTexts :
         RunStep(r, [runs[r] EXCEPT !.pc = "Parse", !.calls = RunCalls(r, "llm", ""),
                        !.response = text])

\* The response a run parses is the one its own SendMessage call returned.
RunParseSharedResponse(r) ==
    /\ entry = "Reconcilers" /\ runs[r].pc = "Parse"
    /\ LET shared == runs[CHOOSE q \in Runs : runs[q].response # NoResponse].response
           p == ParseAutoHealResponse(shared)
       IN  RunStep(r, [runs[r] EXCEPT !.parsed = p,
                          !.pc = IF p.result.kind = "*HealAction"
                                 THEN "SendTemplateCard" ELSE "done"])
RunParse(r) ==
    /\ entry = "Reconcilers" /\ runs[r].pc = "Parse"
    /\ LET p == ParseAutoHealResponse(runs[r].response)
       IN  RunStep(r, [runs[r] EXCEPT !.parsed = p,
                          !.pc = IF p.err = "" /\ p.result.kind = "*HealAction"
                                 THEN "SendTemplateCard" ELSE "done",
                          !.ret = Result(p.err, FALSE)])

\* The card's request identifier is built from time.Now().Unix(), the clock
\* all the runs read.
RunSendTemplateCard(r) ==
    /\ entry = "Reconcilers" /\ runs[r].pc = "SendTemplateCard"
    /\ \E err \in DeliveryOutcomes :
         RunStep(r, [runs[r] EXCEPT !.pc = "done", !.calls = RunCalls(r, "feishu", ""),
                        !.cards = Append(runs[r].cards,
                                     [msg |-> HealCardMessage(runs[r].parsed.result, clock),
                                      err |-> err, at |-> clock])])

\* A second passes.
Tick ==
    /\ entry = "Reconcilers" /\ clock < MaxClock
    /\ clock' = clock + 1
    /\ UNCHANGED <<runs, single>>

InitRuns ==
    /\ InitCommon
    /\ entry = "Reconcilers" /\ pc = "idle" /\ target = NoTargetSelector
    /\ response = NoResponse
    /\ runs = [r \in Runs |-> RunInit] /\ clock = 0

NextRuns ==
    \/ \E r \in Runs : RunGet(r)
    \/ \E r \in Runs : RunGetTargetPods(r)
    \/ \E r \in Runs : RunGetTargetResourceYAML(r)
    \/ \E r \in Runs : RunGetPrometheusAlerts(r)
    \/ \E r \in Runs : RunGetLokiLogs(r)
    \/ \E r \in Runs : RunSendMessage(r)
    \/ \E r \in Runs : RunParse(r)
    \/ \E r \in Runs : RunSendTemplateCard(r)
    \/ Tick

SpecRuns == InitRuns /\ [][NextRuns]_vars

\* ------------------------------------------------------------------ helpers
Called(op) == \E i \in 1..Len(calls) : calls[i].op = op
CallCount(op) == Cardinality({i \in 1..Len(calls) : calls[i].op = op})

\* ParseAutoHealResponse has returned in this run.
ParseReturned == response # NoResponse /\ pc \in {"SendTemplateCard", "done"}

\* BuildEventString has returned a report in this run.
ReportReturned == entry = "Reconcile" /\ logReply.kind = "json"

ActionIs(a) == response.syntax = "object" /\ response.action = JStr(a)
Positions(line) == {i \in 1..Len(eventString) : eventString[i] = line}

\* ------------------------------------------------------------------- claims
RiskLevels == {"low", "medium", "high"}

\* C1: for a response that is a JSON object whose action is "heal", the parser
\* returns a HealAction only when risk_level is the string low, medium or
\* high, and the HealAction carries that very value; for any other risk_level
\* (another string, the empty string, null, a non-string, an absent key) it
\* returns an error and a nil outcome.
C1_RiskLevelValidatedNotDefaulted ==
    (ParseReturned /\ ActionIs("heal")) =>
        /\ parsed.result.kind = "*HealAction" =>
              /\ response.risk_level.t = "str"
              /\ response.risk_level.s \in RiskLevels
              /\ parsed.result.RiskLevel = response.risk_level.s
              /\ parsed.err = ""
        /\ ~(response.risk_level.t = "str" /\ response.risk_level.s \in RiskLevels) =>
              parsed.err # "" /\ parsed.result = NilResult

C1_Witness ==
    /\ ParseReturned /\ ActionIs("heal")
    /\ response.risk_level = JStr("")
    /\ ParseJSONToHealOK(response)
    /\ parsed = Returned(NilResult, "invalid risk_level")

\* C2: the parser returns an outcome only when the decoded action is exactly
\* "heal" or "noop"; a JSON object with any other action value, or with no
\* action key, gives an error and a nil outcome, and a run that received it
\* ends with that error, without a noop being recorded.
C2_UnknownActionIsError ==
    ParseReturned =>
        /\ parsed.result # NilResult =>
              parsed.err = "" /\ (ActionIs("heal") \/ ActionIs("noop"))
        /\ (response.syntax = "object" /\ ~ActionIs("heal") /\ ~ActionIs("noop")) =>
              /\ parsed.err # "" /\ parsed.result = NilResult
              /\ logged = <<>> /\ cards = <<>>
              /\ IsRun => pc = "done" /\ ret.err = parsed.err

C2_Witness ==
    /\ entry = "Reconcile" /\ ParseReturned
    /\ response.syntax = "object" /\ response.action = Absent
    /\ parsed = Returned(NilResult, "unknown action")
    /\ ret.err = "unknown action"

\* C3: for a text that is not valid JSON the parser returns an error and a nil
\* outcome, never a zero-valued HealAction or NoopAction.
C3_InvalidJSONIsErrorAndNil ==
    (ParseReturned /\ response.syntax = "invalid") =>
        parsed.err # "" /\ parsed.result = NilResult

C3_Witness ==
    /\ ParseReturned /\ response.syntax = "invalid"
    /\ parsed = Returned(NilResult, "parse base failed")

\* C4: SendTemplateCard is called only in a run whose parse returned a
\* HealAction with no error; when the parse fails (unparseable text, unknown
\* action, invalid risk level) Reconcile returns the error and no delivery
\* call is made.
C4_NotifyOnlyAfterValidHeal ==
    IsRun =>
        /\ (pc = "SendTemplateCard" \/ Called("feishu") \/ cards # <<>>) =>
              /\ parsed.err = ""
              /\ parsed.result.kind = "*HealAction"
              /\ parsed.result.RiskLevel \in RiskLevels
        /\ (ParseReturned /\ parsed.err # "") =>
              /\ pc = "done" /\ ret.err = parsed.err
              /\ ~Called("feishu") /\ cards = <<>>

C4_Witness ==
    /\ entry = "Reconcile" /\ pc = "done"
    /\ ActionIs("heal") /\ response.risk_level = JStr("")
    /\ ret.err = "invalid risk_level"
    /\ ~Called("feishu") /\ cards = <<>>

\* C5: a run whose parsed outcome is a NoopAction logs the reason and nothing
\* else: no delivery call is made and the run ends with no error.
C5_NoopOnlyLogs ==
    (IsRun /\ ParseReturned /\ parsed.result.kind = "*NoopAction") =>
        /\ pc = "done" /\ ret = Result("", FALSE)
        /\ logged = <<Log("noop", parsed.result.Reason)>>
        /\ ~Called("feishu") /\ cards = <<>>

C5_Witness ==
    /\ entry = "Reconcile" /\ pc = "done"
    /\ parsed = Returned(NoopAction("noop", "CPU usage nominal"), "")
    /\ logged = <<Log("noop", "CPU usage nominal")>>
    /\ cards = <<>>

\* C6: a JSON object whose action is "noop" (its reason a string, null or
\* absent) decodes to a NoopAction holding that action and reason, with no
\* error, whatever the other keys hold: keys of the heal shape with any value
\* or type, and keys of no shape.
C6_NoopIgnoresExtraFields ==
    (ParseReturned /\ ActionIs("noop") /\ StringFieldOK(response.reason)) =>
        parsed = Returned(NoopAction("noop", StringField(response.reason)), "")

C6_Witness ==
    /\ ParseReturned /\ ActionIs("noop")
    /\ response.risk_level = JStr("critical")
    /\ response.namespace = JNum
    /\ response.target = NonObjectTarget
    /\ response.extra
    /\ parsed = Returned(NoopAction("noop", "CPU usage nominal"), "")

\* C7: every report BuildEventString returns holds each of the three section
\* headers exactly once, the resource header before the alerts header before
\* the logs header, whichever of the three blocks are empty.
C7_HeadersOnceInOrder ==
    ReportReturned =>
        /\ \A h \in Headers : Cardinality(Positions(h)) = 1
        /\ \A i \in Positions(ResourceHeader), j \in Positions(AlertsHeader),
              k \in Positions(LogsHeader) : i < j /\ j < k

C7_Witness ==
    /\ ReportReturned
    /\ resourceYAML = <<>> /\ prometheusAlerts # <<>> /\ lokiLogs = <<>>
    /\ Len(eventString) > 0

\* C8: for every card handed to SendTemplateCard, the namespace variable
\* equals the HealAction's namespace and the name variable equals the
\* HealAction's target.labelSelector.
C8_PayloadRoundTrip ==
    \A i \in 1..Len(cards) :
        /\ cards[i].msg.Variables.Namespace = parsed.result.Namespace
        /\ cards[i].msg.Variables.Name = parsed.result.Target.LabelSelector

\* C9: when the resource query lists zero pods it returns an empty block and
\* no error: the run goes on to the alert query, after an answer from the
\* alert source to the log query, and the report, once built, holds all three
\* headers after both queries were issued.
C9_ZeroPodsStillQueriesAndReports ==
    (entry = "Reconcile" /\ pods.listed /\ pods.items = <<>>) =>
        /\ resourceYAML = <<>>
        /\ pc = "GetPrometheusAlerts" \/ Called("prometheus")
        /\ (alertReply.kind = "json") => (pc = "GetLokiLogs" \/ Called("loki"))
        /\ ReportReturned =>
              /\ Called("prometheus") /\ Called("loki")
              /\ \A h \in Headers : Positions(h) # {}

C9_Witness ==
    /\ entry = "Reconcile" /\ pods.listed /\ pods.items = <<>>
    /\ ReportReturned
    /\ Called("prometheus") /\ Called("loki")
    /\ eventString[1] = ResourceHeader /\ eventString[2] = ""
    /\ eventString[3] = AlertsHeader

\* C10: when the alert source fails while the resource query succeeded, the
\* run still completes: the report marks the alerts section unavailable and
\* the reasoning service is called.
C10_AlertFailureDegrades ==
    (entry = "Reconcile" /\ pc = "done" /\ pods.listed /\ PrometheusFails(alertReply)) =>
        /\ Called("llm")
        /\ \E i \in 1..Len(eventString) : eventString[i] = "unavailable"
        /\ ret.err \notin {"transport error", "not json"}

\* The position of the first call of op in the run, 0 when there is none.
FirstCall(op) ==
    IF Called(op) THEN CHOOSE i \in 1..Len(calls) :
                            calls[i].op = op /\ \A j \in 1..(i - 1) : calls[j].op # op
    ELSE 0

\* C11: within one Reconcile run the request to the reasoning service is
\* issued (or next to be issued) only after the resource listing, the alert
\* query and the log query have each been issued and have returned a result;
\* none of them is outstanding or not yet started, and the three calls precede
\* the reasoning call in the order resource, alerts, logs.
C11_SendAfterAllEvidence ==
    (entry = "Reconcile" /\ (pc = "SendMessage" \/ Called("llm"))) =>
        /\ pods.listed /\ CallCount("list") = 2
        /\ CallCount("prometheus") = 1 /\ alertReply.kind = "json"
        /\ CallCount("loki") = 1 /\ logReply.kind = "json"
        /\ FirstCall("list") < FirstCall("prometheus")
        /\ FirstCall("prometheus") < FirstCall("loki")
        /\ Called("llm") => FirstCall("loki") < FirstCall("llm")
        /\ eventString = EventString(resourceYAML, prometheusAlerts, lokiLogs)

C11_Witness ==
    /\ entry = "Reconcile" /\ Called("llm")
    /\ pods.items # <<>> /\ prometheusAlerts # <<>> /\ lokiLogs # <<>>
    /\ FirstCall("llm") = 6

\* The reasoning call of this run was made and returned an error.
SendMessageFailed == Called("llm") /\ response = NoResponse /\ pc = "done"

\* C12: when SendMessage returns an error (the transport failed, or the reply
\* held no choices) the run ends with that error: the parser is not called,
\* no card is built or delivered, and nothing is logged as a noop.
C12_ReasoningFailureAborts ==
    (IsRun /\ SendMessageFailed) =>
        /\ ret.err \in {"transport error", "no response from OpenAI"}
        /\ parsed = NotParsed
        /\ ~Called("feishu") /\ cards = <<>>
        /\ logged = <<>>

C12_Witness ==
    /\ entry = "Reconcile" /\ SendMessageFailed
    /\ ret = Result("no response from OpenAI", FALSE)
    /\ eventString # <<>>

\* C13: when SendTemplateCard returns an error for the card of a validated
\* HealAction, Reconcile logs the error and does nothing else: the run holds
\* exactly one delivery attempt, and it returns no error and no requeue.
C13_DeliveryFailureLoggedOnly ==
    (entry = "Reconcile" /\ cards # <<>> /\ cards[Len(cards)].err # "") =>
        /\ Len(cards) = 1 /\ CallCount("feishu") = 1
        /\ pc = "done" /\ ret = Result("", FALSE)
        /\ logged[Len(logged)] = Log("card failed", cards[1].err)

C13_Witness ==
    /\ entry = "Reconcile" /\ pc = "done"
    /\ parsed.result.kind = "*HealAction"
    /\ Len(cards) = 1 /\ cards[1].err = "send card failed"
    /\ ret = Result("", FALSE)

\* The noop lines among the log lines of the decision stage.
NoopsRecorded == Cardinality({i \in 1..Len(logged) : logged[i].msg = "noop"})

\* C14: a finished run whose parse returned an outcome with no error has
\* either made exactly one delivery attempt and recorded no noop (the outcome
\* is a HealAction) or recorded exactly one noop and made no delivery attempt
\* (the outcome is a NoopAction); never both and never neither.
C14_ExactlyOneRoute ==
    (IsRun /\ pc = "done" /\ ParseReturned /\ parsed.err = "") =>
        \/ /\ parsed.result.kind = "*HealAction"
           /\ CallCount("feishu") = 1 /\ Len(cards) = 1 /\ NoopsRecorded = 0
        \/ /\ parsed.result.kind = "*NoopAction"
           /\ CallCount("feishu") = 0 /\ Len(cards) = 0 /\ NoopsRecorded = 1

C14_Witness ==
    /\ entry = "Reconcile" /\ pc = "done" /\ ParseReturned
    /\ parsed.result.kind = "*HealAction" /\ parsed.err = ""
    /\ Len(cards) = 1 /\ cards[1].err = "" /\ NoopsRecorded = 0

\* C15: FilterPodFields returns for every pod GetTargetResourceYAML hands it,
\* also one with zero status conditions or zero container statuses: once the
\* listing has been processed there is a filtered pod for every listed pod and
\* the run has not ended in an index-out-of-range panic.
C15_FilterPodFieldsTotal ==
    (entry = "Reconcile" /\ pods.listed) =>
        /\ Len(filteredPods) = Len(pods.items)
        /\ ret.err # IndexPanic

\* C16: every pod FilterPodFields returned has an empty resource version, a
\* zero generation and no owner references, finalizers or managed fields, and
\* the name, namespace and labels of the pod it was made from; the encoded
\* block holds no resourceVersion line.
C16_FilteredPodsCarryNoBookkeeping ==
    (entry = "Reconcile" /\ pods.listed) =>
        \A i \in 1..Len(filteredPods) :
            /\ filteredPods[i].ResourceVersion = ""
            /\ filteredPods[i].Generation = 0
            /\ filteredPods[i].OwnerReferences = <<>>
            /\ filteredPods[i].Finalizers = <<>>
            /\ filteredPods[i].ManagedFields = <<>>
            /\ filteredPods[i].Name = pods.items[i].Name
            /\ filteredPods[i].Namespace = pods.items[i].Namespace
            /\ filteredPods[i].Labels = pods.items[i].Labels
            /\ \A j \in 1..Len(resourceYAML) :
                  resourceYAML[j] # "  resourceVersion: " \o pods.items[i].ResourceVersion

C16_Witness ==
    /\ entry = "Reconcile" /\ pods.listed
    /\ Len(filteredPods) = 1
    /\ pods.items[1].ResourceVersion # "" /\ pods.items[1].Generation # 0
    /\ pods.items[1].OwnerReferences # <<>> /\ pods.items[1].Finalizers # <<>>
    /\ pods.items[1].ManagedFields # <<>>
    /\ filteredPods[1].Name = "web-0"
    /\ resourceYAML # <<>>

\* The line that follows the header in the report is a line of text: not a
\* blank line, not another header, not the end of the report.
LineAfter(header) ==
    LET i == CHOOSE p \in Positions(header) : TRUE
    IN  IF i + 1 <= Len(eventString) THEN eventString[i + 1] ELSE ""
SectionHasLine(header) == LineAfter(header) # "" /\ LineAfter(header) \notin Headers

\* C17: in every report BuildEventString returns, each of the three sections
\* whose source returned no records (no pods, no alerts, no log lines) holds
\* a "none" sentinel line right after its header; the resource information
\* section too.
C17_EmptySectionsHaveSentinel ==
    ReportReturned =>
        /\ resourceYAML = <<>> => SectionHasLine(ResourceHeader)
        /\ prometheusAlerts = <<>> => LineAfter(AlertsHeader) = "No firing alerts"
        /\ lokiLogs = <<>> => LineAfter(LogsHeader) = "No error logs"

\* C19: every call to a collaborator (the pod listing, the alert query, the
\* log query, the reasoning request, the card delivery) is made with a timeout
\* and with the caller's context, so a call that gets no reply is ended by
\* either, and a run that has not returned can always take a step.
C19_CallsBoundedRunTerminates ==
    IsRun =>
        /\ pc \in BlockedPCs => (ENABLED CallTimesOut) /\ (ENABLED ContextCancelled)
        /\ pc # "done" => ENABLED Next

\* The runs that have handed a card to SendTemplateCard.
Dispatched == {r \in Runs : runs[r].cards # <<>>}
RequestIDOf(r) == runs[r].cards[1].msg.Variables.RequestID

\* C18: the request identifier of every dispatched card is the HealAction's
\* patch file name followed by the Unix time of the dispatch, and any two
\* dispatches carry different identifiers, also when their patch file names
\* are equal.
C18_RequestIDsUnique ==
    /\ \A r \in Dispatched :
          RequestIDOf(r) = runs[r].parsed.result.PatchFile \o "-" \o ToString(runs[r].cards[1].at)
    /\ \A p \in Dispatched, q \in Dispatched : p # q => RequestIDOf(p) # RequestIDOf(q)

ResourceQueryFailed == CallCount("list") = 2 /\ ~pods.listed /\ pc = "done"
AlertQueryFailed == PrometheusFails(alertReply)
LogQueryFailed == LokiFails(logReply)

\* C21: when one of the three sub-queries of BuildEventString returns an
\* error, the sub-queries after it in the order resource, alerts, logs are not
\* issued, no report is built, and Reconcile returns the error with a requeue
\* without calling the reasoning service, the parser or the card delivery.
C21_SubQueryFailureAborts ==
    entry = "Reconcile" =>
        /\ ResourceQueryFailed => ~Called("prometheus") /\ ~Called("loki")
        /\ AlertQueryFailed => ~Called("loki")
        /\ (ResourceQueryFailed \/ AlertQueryFailed \/ LogQueryFailed) =>
              /\ pc = "done" /\ ret.err # "" /\ ret.requeue
              /\ eventString = <<>>
              /\ ~Called("llm") /\ response = NoResponse
              /\ parsed = NotParsed /\ ~Called("feishu") /\ cards = <<>>

C21_Witness ==
    /\ entry = "Reconcile" /\ pc = "done"
    /\ pods.listed /\ pods.items # <<>> /\ resourceYAML # <<>>
    /\ alertReply.kind = "not json"
    /\ ret = Result("not json", TRUE)
    /\ ~Called("loki") /\ ~Called("llm")

\* C22: no HealAction the parser returns, and no HealAction a run builds a
\* card from, holds a patch operation whose op is outside replace, add and
\* remove.
C22_PatchOpsEnforced ==
    LET allowed == {"replace", "add", "remove"} IN
    (ParseReturned /\ parsed.result.kind = "*HealAction") =>
        /\ \A i \in 1..Len(parsed.result.PatchContent) :
              parsed.result.PatchContent[i].Op \in allowed
        /\ \A c \in 1..Len(cards) :
              \A i \in 1..Len(cards[c].msg.Variables.Patches) :
                  cards[c].msg.Variables.Patches[i].Op \in allowed

\* C23: the expression GetPrometheusAlerts sends is ALERTS{namespace=...}
\* with every label matcher of the target inside the braces, after the
\* namespace matcher and before the closing brace, followed by the firing
\* state condition.
C23_LabelMatchersInsideBraces ==
    LET inside == "ALERTS{namespace='" \o target.Namespace \o "'"
                    \o (IF target.MatchLabelsNil THEN ""
                        ELSE LabelMatchers(target.MatchLabels, "'"))
                    \o "}" \o " and ALERTS.state='firing'"
    IN  entry = "Reconcile" =>
            \A i \in 1..Len(calls) : calls[i].op = "prometheus" => calls[i].arg = inside

\* C24: every pod FilterPodFields returned holds exactly one condition and
\* exactly one container status; the condition's type is Ready and its status
\* is the status of the input pod's condition of type Ready, at whatever
\* position of the input's condition list that condition is.
C24_ReadyConditionKept ==
    (entry = "Reconcile" /\ pods.listed) =>
        \A i \in 1..Len(filteredPods) :
            /\ Len(filteredPods[i].Conditions) = 1
            /\ Len(filteredPods[i].ContainerStatuses) = 1
            /\ filteredPods[i].Conditions[1].Type = "Ready"
            /\ \A j \in 1..Len(pods.items[i].Conditions) :
                  pods.items[i].Conditions[j].Type = "Ready" =>
                      filteredPods[i].Conditions[1].Status = pods.items[i].Conditions[j].Status

\* C25: a report holds the line "No firing alerts" only when the alert source
\* answered with status 200, a data object and a result of type vector with
\* no records; a reply with another status, with no data or with another
\* result type ends the run with an error.
C25_NoFiringAlertsOnlyOnEmptySuccess ==
    LET answered == /\ alertReply.kind = "json" /\ alertReply.status = "200"
                    /\ alertReply.hasData /\ alertReply.resultType = "vector"
    IN  entry = "Reconcile" =>
            /\ (ReportReturned /\ Positions("No firing alerts") # {}) =>
                  answered /\ alertReply.result = <<>>
            /\ (alertReply.kind = "json" /\ ~answered) => pc = "done" /\ ret.err # ""

\* C26: in one run the namespace the pod listing is scoped to is the
\* namespace written into the alert query and into the log query, also for a
\* target whose namespace is empty.
C26_SameNamespaceInAllQueries ==
    entry = "Reconcile" =>
        \A i \in 1..Len(calls), j \in 1..Len(calls) :
            calls[i].op = "list" =>
                /\ calls[j].op = "prometheus" =>
                      calls[j].arg = PrometheusQuery([target EXCEPT !.Namespace = calls[i].arg])
                /\ calls[j].op = "loki" =>
                      calls[j].arg = LokiQuery([target EXCEPT !.Namespace = calls[i].arg])

\* C27: in a Reconcile run for an analyzer whose selector has neither match
\* labels nor match expressions, the only call made is the read of the
\* analyzer itself; when that read succeeds the run returns no error and no
\* requeue, and it lists no pods, issues no alert or log query, calls neither
\* the reasoning service nor the card delivery and builds nothing.
C27_NoSelectorNoEffect ==
    (entry = "Reconcile" /\ target.MatchLabelsNil /\ target.MatchExpressionsNil) =>
        /\ pc \in {"Get", "done"}
        /\ \A i \in 1..Len(calls) : calls[i].op = "get"
        /\ pc = "done" => ~ret.requeue /\ ret.err \in {"", "get failed"}
        /\ ~pods.listed /\ alertReply = NoAlertReply /\ logReply = NoLogReply
        /\ eventString = <<>> /\ response = NoResponse /\ parsed = NotParsed
        /\ cards = <<>> /\ logged = <<>>

C27_Witness ==
    /\ entry = "Reconcile" /\ target.MatchLabelsNil /\ target.MatchExpressionsNil
    /\ pc = "done" /\ ret = Result("", FALSE)
    /\ calls = <<Call("get", "")>>

====
